---- MODULE Spec2Model ----
(***************************************************************************)
(* Page count cache of the upload script (src/unnamed/part_000): a cache   *)
(* of page counts keyed by serverId and kept in localStorage, the PDF page *)
(* counter, the FilePond event handlers and the quantity field they write. *)
(* The change listener of src/assets/update_price_on_quantity_change.js is *)
(* modelled as far as it reads the quantity field.                         *)
(***************************************************************************)
EXTENDS Integers, Sequences, FiniteSets, TLC

\* ------------------------------------------------------------------ bounds

\* Uploads the customer makes over all page loads of a behaviour.
MaxUploads == 2

\* Pieces of the contents handed to the page counter on its own.
MaxChunks == 4

\* Elements of the lists and properties of the objects localStorage is made
\* to hold when the script starts.
MaxPieces == 3

\* ------------------------------------------------------------ JavaScript values

\* The JavaScript values a cache slot or an expression over it can hold.
Null == [tag |-> "null", num |-> 0]
Undefined == [tag |-> "undefined", num |-> 0]
Num(n) == [tag |-> "number", num |-> n]

\* JavaScript truthiness of a value: null, undefined and 0 are falsy.
Truthy(v) == v.tag = "number" /\ v.num # 0

\* a || b
OrElse(a, b) == IF Truthy(a) THEN a ELSE b

\* ------------------------------------------------------------ uploaded files

\* serverIds the upload server hands out, in the order Object.keys lists them.
KeyOrder == <<"s1", "s2", "s3", "s4">>
ServerIds == {KeyOrder[i] : i \in 1..Len(KeyOrder)}

PdfType == "application/pdf"

\* Content is a sequence of lexemes: "/", "Type", "Page", "s", " " (white
\* space) and "x" (any other character).
Marker == <<"/", "Type", " ", "/", "Page">>
PagesObj == Marker \o <<"s", " ", "x", " ">>
PageObj == Marker \o <<" ", "x", " ">>
TightPageObj == <<"/", "Type", "/", "Page", "x", " ">>

\* The File object behind each serverId: its MIME type and its content.
FileOf(id) ==
  CASE id = "s1" -> [type |-> PdfType, content |-> PagesObj \o PageObj \o PageObj \o PageObj]
    [] id = "s2" -> [type |-> "image/png", content |-> <<"x">> \o PageObj \o PageObj]
    [] id = "s3" -> [type |-> PdfType, content |-> PagesObj \o <<"x", "x">>]
    [] OTHER -> [type |-> PdfType, content |-> PagesObj \o TightPageObj \o PageObj]

\* ------------------------------------------------------------ page counting

IsSpace(c) == c = " "

\* End of the run of white space starting at position j ([\s]* is greedy).
RECURSIVE SkipSpace(_, _)
SkipSpace(content, j) ==
  IF j <= Len(content) /\ IsSpace(content[j]) THEN SkipSpace(content, j + 1) ELSE j

\* Position after a match of /\/Type[\s]*\/Page[^s]/ starting at i, or 0.
MatchAt(content, i) ==
  IF i + 1 <= Len(content) /\ content[i] = "/" /\ content[i + 1] = "Type"
  THEN LET j == SkipSpace(content, i + 2)
       IN IF j + 2 <= Len(content) /\ content[j] = "/" /\ content[j + 1] = "Page"
             /\ content[j + 2] # "s"
          THEN j + 3
          ELSE 0
  ELSE 0

\* Number of matches String.prototype.match finds with the g flag, from i on.
CountMatches(content, i) ==
  LET from[k \in 1..(Len(content) + 1)] ==
        IF k > Len(content) THEN 0
        ELSE LET e == MatchAt(content, k)
             IN IF e = 0 THEN from[k + 1] ELSE 1 + from[e]
  IN from[i]

\* countPdfPages without the default for no match.
countPdfPagesNoDefault(file) == CountMatches(file.content, 1)

countPdfPages(file) ==
  LET n == CountMatches(file.content, 1)
  IN IF n = 0 THEN 1 ELSE n

\* analyzeFile without the test of file.type.
analyzeFileAnyType(file) == countPdfPages(file)

analyzeFile(file) ==
  IF file.type = PdfType THEN countPdfPages(file) ELSE 1

\* ------------------------------------------------------------ JSON text

\* A JSON text is a sequence of lexemes [t, s, n]: punctuation, the literals
\* null, true and false, a number literal (n its value) and a string literal
\* (s its characters).
Tok(t) == [t |-> t, s |-> "", n |-> 0]
NumTok(n) == [t |-> "num", s |-> "", n |-> n]
StrTok(s) == [t |-> "str", s |-> s, n |-> 0]

EmptyMap == [k \in {} |-> Null]

\* obj[k] = v
Put(obj, k, v) == [x \in DOMAIN obj \cup {k} |-> IF x = k THEN v ELSE obj[x]]

\* delete obj[k], for every k outside keep
Restrict(obj, keep) == [x \in DOMAIN obj \cap keep |-> obj[x]]

\* A serialisation that treats null as it treats undefined.
ValueTextNullOmitted(v) ==
  IF v.tag = "number" THEN <<NumTok(v.num)>> ELSE <<>>

\* JSON.stringify of one property value; undefined is not serialisable.
ValueText(v) ==
  CASE v.tag = "null" -> <<Tok("null")>>
    [] v.tag = "number" -> <<NumTok(v.num)>>
    [] v.tag = "boolean" -> <<Tok(IF v.num = 1 THEN "true" ELSE "false")>>
    [] OTHER -> <<>>

\* The properties of obj in the order of KeyOrder, comma separated; a
\* property whose value is undefined is left out.
MembersText(obj) ==
  LET keys == SelectSeq(KeyOrder,
                        LAMBDA k : k \in DOMAIN obj /\ ValueText(obj[k]) # <<>>)
      upTo[n \in 0..Len(keys)] ==
        IF n = 0 THEN <<>>
        ELSE upTo[n - 1] \o (IF n = 1 THEN <<>> ELSE <<Tok(",")>>)
             \o <<StrTok(keys[n]), Tok(":")>> \o ValueText(obj[keys[n]])
  IN upTo[Len(keys)]

\* JSON.stringify(obj) for a plain object.
JSONstringify(obj) == <<Tok("{")>> \o MembersText(obj) \o <<Tok("}")>>

IsScalarTok(tok) == tok.t \in {"null", "num", "true", "false"}

ScalarOf(tok) ==
  CASE tok.t = "null" -> Null
    [] tok.t = "num" -> Num(tok.n)
    [] tok.t = "true" -> [tag |-> "boolean", num |-> 1]
    [] OTHER -> [tag |-> "boolean", num |-> 0]

ParseError == [ok |-> FALSE, kind |-> "error", map |-> EmptyMap]

\* The members of an object from lexeme i on, up to the closing brace, which
\* must be the last lexeme of the text.
RECURSIVE ParseMembers(_, _, _)
ParseMembers(toks, i, acc) ==
  IF i + 3 <= Len(toks) /\ toks[i].t = "str" /\ toks[i + 1].t = ":"
     /\ IsScalarTok(toks[i + 2])
  THEN LET acc2 == Put(acc, toks[i].s, ScalarOf(toks[i + 2]))
       IN IF toks[i + 3].t = "}"
          THEN IF i + 3 = Len(toks)
               THEN [ok |-> TRUE, kind |-> "object", map |-> acc2]
               ELSE ParseError
          ELSE IF toks[i + 3].t = ","
               THEN ParseMembers(toks, i + 4, acc2)
               ELSE ParseError
  ELSE ParseError

\* The elements of an array from lexeme i on; element n becomes property n.
RECURSIVE ParseElements(_, _, _, _)
ParseElements(toks, i, n, acc) ==
  IF i + 1 <= Len(toks) /\ IsScalarTok(toks[i])
  THEN LET acc2 == Put(acc, ToString(n), ScalarOf(toks[i]))
       IN IF toks[i + 1].t = "]"
          THEN IF i + 1 = Len(toks)
               THEN [ok |-> TRUE, kind |-> "array", map |-> acc2]
               ELSE ParseError
          ELSE IF toks[i + 1].t = ","
               THEN ParseElements(toks, i + 2, n + 1, acc2)
               ELSE ParseError
  ELSE ParseError

\* JSON.parse(text): ok is FALSE where it throws a SyntaxError.
JSONparse(toks) ==
  IF Len(toks) = 0 THEN ParseError
  ELSE IF Len(toks) = 1
  THEN IF IsScalarTok(toks[1]) \/ toks[1].t = "str"
       THEN [ok |-> TRUE,
             kind |-> CASE toks[1].t = "null" -> "null"
                        [] toks[1].t = "num" -> "number"
                        [] toks[1].t = "str" -> "string"
                        [] OTHER -> "boolean",
             map |-> EmptyMap]
       ELSE ParseError
  ELSE IF toks[1].t = "{"
  THEN IF Len(toks) = 2 /\ toks[2].t = "}"
       THEN [ok |-> TRUE, kind |-> "object", map |-> EmptyMap]
       ELSE ParseMembers(toks, 2, EmptyMap)
  ELSE IF toks[1].t = "["
  THEN IF Len(toks) = 2 /\ toks[2].t = "]"
       THEN [ok |-> TRUE, kind |-> "array", map |-> EmptyMap]
       ELSE ParseElements(toks, 2, 0, EmptyMap)
  ELSE ParseError

\* ------------------------------------------------------------ localStorage

\* The item kept under localStorageKey: absent, or a text.
NoItem == [present |-> FALSE, text |-> <<>>]
Item(text) == [present |-> TRUE, text |-> text]

\* localStorage.getItem as JSON.parse reads it: null is converted to "null".
getItemText(ls) == IF ls.present THEN ls.text ELSE <<Tok("null")>>

\* ------------------------------------------------------------ the cache object

\* The cache object together with the localStorage item it is saved to:
\* cache is this.cache, ls the item under localStorageKey.
CacheState(c, ls) == [cache |-> c, ls |-> ls]

\* cache.load()
load(st) ==
  LET parsed == JSONparse(getItemText(st.ls))
  IN CacheState(IF parsed.ok /\ parsed.kind \in {"object", "array"}
                THEN parsed.map
                ELSE EmptyMap,
                st.ls)

\* cache.save()
save(st) == CacheState(st.cache, Item(JSONstringify(st.cache)))

\* setKey without its this.save().
setKeyUnsaved(st, key, value) == CacheState(Put(st.cache, key, value), st.ls)

\* cache.setKey(key, value)
setKey(st, key, value) == save(CacheState(Put(st.cache, key, value), st.ls))

\* cache.getKey(key)
getKey(st, key) == IF key \in DOMAIN st.cache THEN st.cache[key] ELSE Undefined

\* A hasKey that finds no key.
hasKeyNever(st, key) == FALSE

\* cache.hasKey(key)
hasKey(st, key) == key \in DOMAIN st.cache

\* clearExcept that deletes nothing.
clearExceptKeepsAll(st, exceptKeys) == save(st)

\* clearExcept that also deletes the keys whose value is falsy.
clearExceptDropsPending(st, exceptKeys) ==
  save(CacheState([k \in {x \in DOMAIN st.cache \cap {exceptKeys[i] : i \in 1..Len(exceptKeys)} :
                            Truthy(st.cache[x])} |-> st.cache[k]],
                  st.ls))

\* clearExcept without its this.save().
clearExceptUnsaved(st, exceptKeys) ==
  CacheState(Restrict(st.cache, {exceptKeys[i] : i \in 1..Len(exceptKeys)}), st.ls)

\* clearExcept with the test of includes inverted.
clearExceptInverted(st, exceptKeys) ==
  save(CacheState(Restrict(st.cache, DOMAIN st.cache \ {exceptKeys[i] : i \in 1..Len(exceptKeys)}),
                  st.ls))

\* cache.clearExcept(exceptKeys): Object.keys yields strings, and includes
\* compares them with the elements of exceptKeys without conversion.
clearExcept(st, exceptKeys) ==
  save(CacheState(Restrict(st.cache, {exceptKeys[i] : i \in 1..Len(exceptKeys)}), st.ls))

\* ------------------------------------------------------------ the FilePond list

\* An item of pond.getFiles(): id names the uploaded file, status is
\*   "uploading"  added by the customer, upload not complete: serverId is null
\*   "processed"  upload complete in this page load: serverId set, file a File
\*   "restored"   restored after a reload, processfile not yet fired: serverId
\*                set, file a string
\*   "announced"  restored after a reload, processfile fired
PondItem(id, status) == [id |-> id, status |-> status]

\* The serverId of a file whose upload is not complete (null).
NoServerId == ""

serverId(item) == IF item.status = "uploading" THEN NoServerId ELSE item.id

\* The test of addFile taking the restored string for a File.
IsFileObjectAlways(item) == TRUE

\* File.prototype.isPrototypeOf(detail.file.file)
IsFileObject(item) == item.status \in {"uploading", "processed"}

\* The property name a serverId is converted to when it indexes this.cache.
PropertyKey(sid) == IF sid = NoServerId THEN "null" ELSE sid

\* ------------------------------------------------------------ page count

\* pageCounts.reduce((acc, pageCount) => acc + pageCount, 0), from element i on.
RECURSIVE Reduce(_, _, _)
Reduce(pageCounts, i, acc) ==
  IF i > Len(pageCounts) THEN acc
  ELSE Reduce(pageCounts, i + 1, acc + pageCounts[i].num)

\* getPageCount with || 1 for || 0.
getPageCountPendingAsOne(st, files) ==
  LET cacheKeys == [i \in 1..Len(files) |-> serverId(files[i])]
      pageCounts == [i \in 1..Len(files) |->
                       OrElse(getKey(st, PropertyKey(cacheKeys[i])), Num(1))]
  IN [st |-> clearExcept(st, cacheKeys), total |-> Reduce(pageCounts, 1, 0)]

\* getPageCount(files): the cache after clearExcept and the total returned.
getPageCount(st, files) ==
  LET cacheKeys == [i \in 1..Len(files) |-> serverId(files[i])]
      pageCounts == [i \in 1..Len(files) |->
                       OrElse(getKey(st, PropertyKey(cacheKeys[i])), Num(0))]
  IN [st |-> clearExcept(st, cacheKeys), total |-> Reduce(pageCounts, 1, 0)]

\* element.value = pageCount, without the default.
ValueWrittenUnclamped(pageCount) == ToString(pageCount)

\* element.value = pageCount || 1: the value property holds a string.
ValueWritten(pageCount) == ToString(OrElse(Num(pageCount), Num(1)).num)

\* What the change listener reads: quantityElement.value.
ListenerReads(value) == value

\* updatePageCount(files): the cache, the total, the quantity field and what
\* the change listener read when the change event was dispatched.
updatePageCount(st, files) ==
  LET r == getPageCount(st, files)
      value == ValueWritten(r.total)
  IN [st |-> r.st, pageCount |-> r.total, value |-> value, seen |-> ListenerReads(value)]

\* ------------------------------------------------------------ state

VARIABLES
  cache,            \* this.cache of the cache object
  localStorage,     \* the localStorage item under "uploadPageCountCache"
  pond,             \* pond.getFiles(): the live files, in the order added
  inflight,         \* serverIds whose addFile call is suspended at its await
  pageCount,        \* the total the last updatePageCount computed
  quantity,         \* value of the quantity input
  seen,             \* value the change listener read last
  published,        \* updatePageCount has run in this page load
  lastOp,           \* the handler that ran last
  used,             \* files the customer has uploaded so far
  removedInFlight,  \* files removed while their addFile call was suspended
  completed,        \* files whose analysis has resolved in this page load
  pruned,           \* keys the last handler deleted from the cache
  atReload,         \* the counts the cache held when the page was last reloaded
  pendingAtReload,  \* the keys that were pending when the page was last reloaded
  content,          \* file content handed to the page counter on its own
  estimate,         \* what the page counter returned for content, 0 before it ran
  payload           \* the pieces written to the localStorage item, and whether load() read them

vars == <<cache, localStorage, pond, inflight, pageCount, quantity, seen,
          published, lastOp, used, removedInFlight, completed, pruned,
          atReload, pendingAtReload, content, estimate, payload>>

\* The variables the event handlers leave alone: they belong to the runs of
\* the page counter and of cache.load() on inputs of their own.
offline == <<content, estimate, payload>>

\* The handlers that end with a recompute of the total.
Recomputes == {"init", "init again", "removefile", "complete"}

\* The value attribute of the quantity input when the page is rendered.
DefaultQuantity == "1"

State == CacheState(cache, localStorage)

Indexes == 1..Len(pond)

LiveIds == {pond[i].id : i \in Indexes}

\* The live files that have a serverId.
LiveServerIds == {pond[i].id : i \in {j \in Indexes : pond[j].status # "uploading"}}

RemoveAt(seq, i) == [j \in 1..(Len(seq) - 1) |-> IF j < i THEN seq[j] ELSE seq[j + 1]]

\* Page load: the script runs cache.load() on an empty FilePond list and
\* registers its listeners; localStorage holds no item on the first visit.
Init ==
  /\ localStorage = NoItem
  /\ cache = load(CacheState(EmptyMap, NoItem)).cache
  /\ pond = <<>>
  /\ inflight = {}
  /\ pageCount = 0
  /\ quantity = DefaultQuantity
  /\ seen = ListenerReads(DefaultQuantity)
  /\ published = FALSE
  /\ lastOp = "load"
  /\ used = {}
  /\ removedInFlight = {}
  /\ completed = {}
  /\ pruned = {}
  /\ atReload = EmptyMap
  /\ pendingAtReload = {}
  /\ content = <<>>
  /\ estimate = 0
  /\ payload = [loaded |-> FALSE, pieces |-> <<>>]

\* The quantity field and the total after updatePageCount returned r.
Publish(r) ==
  \E done \in {r} :
    /\ cache' = done.st.cache
    /\ localStorage' = done.st.ls
    /\ pageCount' = done.pageCount
    /\ quantity' = done.value
    /\ seen' = done.seen
    /\ published' = TRUE
    /\ pruned' = DOMAIN cache \ DOMAIN done.st.cache

\* The customer adds a file; its upload starts. The script listens to no
\* event of this step.
Upload(id) ==
  /\ id \notin used
  /\ Cardinality(used) < MaxUploads
  /\ used' = used \cup {id}
  /\ pond' = Append(pond, PondItem(id, "uploading"))
  /\ lastOp' = "upload"
  /\ pruned' = {}
  /\ UNCHANGED <<cache, localStorage, inflight, pageCount, quantity, seen,
                 published, removedInFlight, completed, atReload,
                 pendingAtReload, offline>>

\* An init handler that publishes the total without pruning or saving.
FilePondInitReadOnly ==
  /\ pageCount' = getPageCount(State, pond).total
  /\ quantity' = ValueWritten(pageCount')
  /\ seen' = ListenerReads(quantity')
  /\ published' = TRUE
  /\ pruned' = {}
  /\ lastOp' = IF lastOp \in Recomputes THEN "init again" ELSE "init"
  /\ UNCHANGED <<cache, localStorage, pond, inflight, used, removedInFlight, completed,
                 atReload,
                 pendingAtReload, offline>>

\* FilePond:init
FilePondInit ==
  /\ Publish(updatePageCount(State, pond))
  /\ lastOp' = IF lastOp \in Recomputes THEN "init again" ELSE "init"
  /\ UNCHANGED <<pond, inflight, used, removedInFlight, completed, atReload,
                 pendingAtReload, offline>>

\* addFile suspending before it writes the pending marker.
FilePondProcessfileLateMarker(i) ==
  /\ pond[i].status \in {"uploading", "restored"}
  /\ pond' = [pond EXCEPT ![i].status =
                IF pond[i].status = "uploading" THEN "processed" ELSE "announced"]
  /\ lastOp' = "processfile"
  /\ inflight' = IF IsFileObject(pond[i]) THEN inflight \cup {pond[i].id} ELSE inflight
  /\ pruned' = {}
  /\ UNCHANGED <<cache, localStorage, pageCount, quantity, seen, published, used,
                 removedInFlight, completed, atReload, pendingAtReload, offline>>

\* FilePond:processfile for item i: addFile(detail) up to its await.
FilePondProcessfile(i) ==
  /\ pond[i].status \in {"uploading", "restored"}
  /\ pond' = [pond EXCEPT ![i].status =
                IF pond[i].status = "uploading" THEN "processed" ELSE "announced"]
  /\ lastOp' = "processfile"
  /\ IF IsFileObject(pond[i])
     THEN LET st == setKey(State, PropertyKey(pond[i].id), Null)
          IN /\ cache' = st.cache
             /\ localStorage' = st.ls
             /\ inflight' = inflight \cup {pond[i].id}
     ELSE UNCHANGED <<cache, localStorage, inflight>>
  /\ pruned' = {}
  /\ UNCHANGED <<pageCount, quantity, seen, published, used,
                 removedInFlight, completed, atReload,
                 pendingAtReload, offline>>

\* The await of addFile resolves for cacheKey: the rest of addFile.
AnalysisDone(cacheKey) ==
  /\ cacheKey \in inflight
  /\ inflight' = inflight \ {cacheKey}
  /\ completed' = completed \cup {cacheKey}
  /\ LET count == analyzeFile(FileOf(cacheKey))
     IN IF hasKey(State, cacheKey)
        THEN /\ \E st \in {setKey(State, cacheKey, Num(count))} :
                  Publish(updatePageCount(st, pond))
             /\ lastOp' = "complete"
        ELSE /\ lastOp' = "stale"
             /\ pruned' = {}
             /\ UNCHANGED <<cache, localStorage, pageCount, quantity, seen, published>>
  /\ UNCHANGED <<pond, used, removedInFlight, atReload,
                 pendingAtReload, offline>>

\* An addFile that catches the rejection and stores a count of 1.
ReadFailedCountsOne(cacheKey) ==
  /\ cacheKey \in inflight
  /\ FileOf(cacheKey).type = PdfType
  /\ inflight' = inflight \ {cacheKey}
  /\ lastOp' = "readfail"
  /\ Publish(updatePageCount(setKey(State, cacheKey, Num(1)), pond))
  /\ UNCHANGED <<pond, used, removedInFlight, completed, atReload,
                 pendingAtReload, offline>>

\* reader.onerror: readAsBinaryString rejects, and so does addFile; nothing
\* handles the rejection.
ReadFailed(cacheKey) ==
  /\ cacheKey \in inflight
  /\ FileOf(cacheKey).type = PdfType
  /\ inflight' = inflight \ {cacheKey}
  /\ lastOp' = "readfail"
  /\ pruned' = {}
  /\ UNCHANGED <<cache, localStorage, pond, pageCount, quantity, seen, published,
                 used, removedInFlight, completed, atReload,
                 pendingAtReload, offline>>

\* FilePond:removefile for item i: the list no longer holds the file.
FilePondRemovefile(i) ==
  /\ pond' = RemoveAt(pond, i)
  /\ Publish(updatePageCount(State, pond'))
  /\ removedInFlight' = removedInFlight \cup ({pond[i].id} \cap inflight)
  /\ lastOp' = "removefile"
  /\ UNCHANGED <<inflight, used, completed, atReload,
                 pendingAtReload, offline>>

\* The customer reloads the page: suspended calls are gone, the script runs
\* again (cache.load()) and FilePond restores, without their File objects,
\* the files it still holds of those that had a serverId. FilePond keeps its
\* list in a store of its own, so it may hold fewer files than the cache has
\* keys.
Reload(held) ==
  /\ cache' = load(State).cache
  /\ held \subseteq LiveServerIds
  /\ LET kept == SelectSeq(pond, LAMBDA item : item.id \in held)
     IN pond' = [i \in 1..Len(kept) |-> PondItem(kept[i].id, "restored")]
  /\ inflight' = {}
  /\ pageCount' = 0
  /\ quantity' = DefaultQuantity
  /\ seen' = ListenerReads(DefaultQuantity)
  /\ published' = FALSE
  /\ lastOp' = "load"
  /\ removedInFlight' = {}
  /\ completed' = {}
  /\ pruned' = {}
  /\ atReload' = [id \in {k \in DOMAIN cache : cache[k].tag = "number"} |-> cache[id].num]
  /\ pendingAtReload' = {k \in DOMAIN cache : cache[k] = Null}
  /\ UNCHANGED <<localStorage, used, offline>>

Next ==
  \/ \E id \in ServerIds : Upload(id)
  \/ FilePondInit
  \/ \E i \in Indexes : FilePondProcessfile(i)
  \/ \E id \in ServerIds : AnalysisDone(id)
  \/ \E id \in ServerIds : ReadFailed(id)
  \/ \E i \in Indexes : FilePondRemovefile(i)
  \/ \E held \in SUBSET LiveServerIds : Reload(held)

Spec == Init /\ [][Next]_vars

\* ------------------------------------------------------------ the page counter alone

\* The variables of the event handlers.
\* Every content read succeeds: reader.onload fires for each started read, so
\* each suspended addFile is resumed, and FilePond fires its init event once
\* the page has loaded.
NextNoFail ==
  \/ \E id \in ServerIds : Upload(id)
  \/ FilePondInit
  \/ \E i \in Indexes : FilePondProcessfile(i)
  \/ \E id \in ServerIds : AnalysisDone(id)
  \/ \E i \in Indexes : FilePondRemovefile(i)
  \/ \E held \in SUBSET LiveServerIds : Reload(held)

Fairness ==
  /\ \A id \in ServerIds : WF_vars(AnalysisDone(id))
  /\ WF_vars(~published /\ FilePondInit)

SpecFair == Init /\ [][NextNoFail]_vars /\ Fairness

online == <<cache, localStorage, pond, inflight, pageCount, quantity, seen,
            published, lastOp, used, removedInFlight, completed, pruned,
            atReload, pendingAtReload>>

\* A content is put together from pieces: "marker" is the text /Type /Page,
\* the others are the single characters s, white space and x.
Chunks == {"marker", "s", " ", "x"}

\* The text readAsBinaryString resolves to for a content made of pieces.
RECURSIVE FileContent(_)
FileContent(chunks) ==
  IF chunks = <<>> THEN <<>>
  ELSE (IF Head(chunks) = "marker" THEN Marker ELSE <<Head(chunks)>>)
       \o FileContent(Tail(chunks))

\* A piece is added to the content the page counter will be given.
AppendChunk(c) ==
  /\ Len(content) < MaxChunks
  /\ content' = Append(content, c)
  /\ estimate' = 0
  /\ UNCHANGED <<online, payload>>

\* countPdfPages(file) on a PDF with that content.
CountPages ==
  /\ estimate = 0
  /\ estimate' = countPdfPages([type |-> PdfType, content |-> FileContent(content)])
  /\ UNCHANGED <<online, content, payload>>

EstimateNext ==
  \/ \E c \in Chunks : AppendChunk(c)
  \/ CountPages

SpecEstimate == Init /\ [][EstimateNext]_vars

\* ---------------------------------------------------------- load() alone

\* The item under localStorageKey is put together from pieces: brackets, a
\* comma, the scalars null, 3, true and "s1", and the members "s1":3 and
\* "s2":null.
Pieces == {"{", "}", "[", "]", ",", "null", "3", "true", "str", "s1:3", "s2:null"}

\* The lexemes of a text made of pieces.
RECURSIVE PayloadText(_)
PayloadText(pieces) ==
  IF pieces = <<>> THEN <<>>
  ELSE (CASE Head(pieces) = "3" -> <<NumTok(3)>>
          [] Head(pieces) = "str" -> <<StrTok("s1")>>
          [] Head(pieces) = "s1:3" -> <<StrTok("s1"), Tok(":"), NumTok(3)>>
          [] Head(pieces) = "s2:null" -> <<StrTok("s2"), Tok(":"), Tok("null")>>
          [] OTHER -> <<Tok(Head(pieces))>>)
       \o PayloadText(Tail(pieces))

\* Something on the origin writes the item before the script starts.
AppendPiece(c) ==
  /\ ~payload.loaded
  /\ Len(payload.pieces) < MaxPieces
  /\ payload' = [payload EXCEPT !.pieces = Append(@, c)]
  /\ localStorage' = Item(PayloadText(payload'.pieces))
  /\ UNCHANGED <<cache, pond, inflight, pageCount, quantity, seen, published,
                 lastOp, used, removedInFlight, completed, pruned, atReload,
                 pendingAtReload, content, estimate>>

\* The script starts: cache.cache is {} and cache.load() runs.
ScriptStart ==
  /\ ~payload.loaded
  /\ cache' = load(CacheState(EmptyMap, localStorage)).cache
  /\ payload' = [payload EXCEPT !.loaded = TRUE]
  /\ UNCHANGED <<localStorage, pond, inflight, pageCount, quantity, seen,
                 published, lastOp, used, removedInFlight, completed, pruned,
                 atReload, pendingAtReload, content, estimate>>

LoadNext ==
  \/ \E c \in Pieces : AppendPiece(c)
  \/ ScriptStart

SpecLoad == Init /\ [][LoadNext]_vars

\* ------------------------------------------------------------ claims

\* The counts the cache holds, for the sums below.
CountOf(id) ==
  IF id \in DOMAIN cache /\ cache[id].tag = "number" THEN cache[id].num ELSE 0

RECURSIVE SumCounts(_)
SumCounts(ids) ==
  IF ids = {} THEN 0
  ELSE LET id == CHOOSE x \in ids : TRUE
       IN CountOf(id) + SumCounts(ids \ {id})

\* What a fresh cache.load() would read from localStorage.
Persisted == load(CacheState(EmptyMap, localStorage)).cache

\* C1: a file removed while its analysis was in flight has no entry in the
\* cache, nor in the persisted mapping, in any later state of the page load:
\* neither before its analysis resolves nor after, whatever else happens.
C1_RemovedInFlightNeverCached ==
  \A f \in removedInFlight : f \notin DOMAIN cache /\ f \notin DOMAIN Persisted

\* C1 witness: the analysis of a file removed in flight has just resolved
\* (stale), while the cache holds the entry of another file.
C1_Witness ==
  /\ lastOp = "stale"
  /\ removedInFlight \cap completed # {}
  /\ cache # EmptyMap

\* C2: a count the cache held when the page was reloaded is still the entry
\* of its file as long as the file is live, also after the init event and
\* after the processfile event that carries no File; and the total published
\* since the reload is that count plus the counts of the other live files.
C2_CountSurvivesReload ==
  \A f \in DOMAIN atReload \cap LiveIds :
     /\ getKey(State, f) = Num(atReload[f])
     /\ published => pageCount = atReload[f] + SumCounts(LiveIds \ {f})

\* C2 witness: after a reload and an init event, the processfile event of a
\* restored file whose count was cached has just been handled.
C2_Witness ==
  /\ lastOp = "processfile"
  /\ published
  /\ \E i \in Indexes : pond[i].status = "announced" /\ pond[i].id \in DOMAIN atReload

\* C3: when s1 (a PDF with 3 page markers) and s2 (not a PDF) are the live
\* files with a serverId and both analyses have resolved in this page load,
\* the total is 4 and the quantity field holds "4".
C3_BothResolved ==
  (LiveServerIds = {"s1", "s2"} /\ {"s1", "s2"} \subseteq completed)
    => (pageCount = 4 /\ quantity = "4")

\* C3 witness: the second of the two analyses has just resolved.
C3_Witness ==
  /\ LiveServerIds = {"s1", "s2"}
  /\ {"s1", "s2"} \subseteq completed
  /\ lastOp = "complete"

\* C4: when s1 was removed while its analysis was in flight, s2 is the only
\* live file with a serverId, its analysis has resolved and no analysis is
\* in flight any more, the total is 1 and the quantity field holds "1".
C4_RemovedBeforeResolved ==
  ("s1" \in removedInFlight /\ "s2" \in completed /\ inflight = {}
   /\ LiveServerIds = {"s2"})
    => (pageCount = 1 /\ quantity = "1")

\* C4 witness: the stale analysis of s1 resolved last.
C4_Witness ==
  /\ "s1" \in removedInFlight \cap completed
  /\ "s2" \in completed
  /\ inflight = {}
  /\ LiveServerIds = {"s2"}
  /\ lastOp = "stale"

\* The total of the counts of a set of files, each analysed.
RECURSIVE TotalOf(_)
TotalOf(ids) ==
  IF ids = {} THEN 0
  ELSE LET id == CHOOSE x \in ids : TRUE
       IN analyzeFile(FileOf(id)) + TotalOf(ids \ {id})

\* C5: once updatePageCount has run, the quantity field holds the last total,
\* or 1 where the total is below 1, and the change listener has read that
\* value; the field is the decimal of a number >= 1, and it holds "1" with
\* total 0 when no file is live.
C5_PublishedAtLeastOne ==
  published =>
    /\ quantity = ToString(IF pageCount >= 1 THEN pageCount ELSE 1)
    /\ seen = quantity
    /\ \E n \in 1..TotalOf(ServerIds) : quantity = ToString(n)
    /\ pond = <<>> => (pageCount = 0 /\ quantity = "1")

\* C5 witness: the last live file was removed: total 0, field "1".
C5_Witness ==
  /\ published
  /\ lastOp = "removefile"
  /\ pond = <<>>
  /\ pageCount = 0
  /\ quantity = "1"
  /\ used # {}

\* C6: a handler that recomputes the total with live list L leaves in the
\* cache exactly the keys it held before that are serverIds of L, each with
\* the value it had (the key a completion has just resolved aside), and a
\* fresh load of localStorage reads the pruned mapping.
C6_PruneExact ==
  [][lastOp' \in Recomputes =>
       /\ DOMAIN cache' = DOMAIN cache \cap LiveServerIds'
       /\ \A k \in DOMAIN cache' \ (inflight \ inflight') : cache'[k] = cache[k]
       /\ localStorage'.present
       /\ Persisted' = cache']_vars

\* C6 witness: a recompute has deleted a key and kept another.
C6_Witness ==
  /\ lastOp \in Recomputes
  /\ pruned # {}
  /\ cache # EmptyMap
  /\ DOMAIN cache = LiveServerIds

\* C7: the total a recompute returns is the sum of the cached counts of the
\* live files, a pending or missing entry counting 0.
C7_TotalIsSumOfCounts ==
  lastOp \in Recomputes => pageCount = SumCounts(LiveServerIds)

\* C7 witness: a completion has recomputed the total while another live file
\* is pending.
C7_Witness ==
  /\ lastOp = "complete"
  /\ pageCount >= 1
  /\ \E k \in LiveServerIds : getKey(State, k) = Null

\* C8: an init event handled right after a recompute, with the same file list
\* and no event in between, returns the total the first recompute returned and
\* leaves the cache and localStorage as they are.
C8_RecomputeIdempotent ==
  [][lastOp' = "init again" =>
       /\ pageCount' = pageCount
       /\ cache' = cache
       /\ localStorage' = localStorage]_vars

\* C8 witness: the second of two recomputes in a row, over a cache of counts.
C8_Witness ==
  /\ lastOp = "init again"
  /\ pageCount >= 1
  /\ cache # EmptyMap

\* The values addFile stores: the pending marker and the counts of analyzeFile.
StoredValues == {Null} \cup {Num(analyzeFile(FileOf(id))) : id \in ServerIds}

\* C9: in every state, setKey(k, v) followed by load() into a fresh cache
\* object yields getKey(k) = v, for every serverId k and stored value v; the
\* pending marker comes back as null, neither undefined nor a number.
C9_RoundTrip ==
  \A k \in ServerIds, v \in StoredValues :
     LET fresh == load(CacheState(EmptyMap, setKey(State, k, v).ls))
     IN /\ hasKey(fresh, k)
        /\ getKey(fresh, k) = v
        /\ v = Null => (getKey(fresh, k) # Undefined /\ getKey(fresh, k).tag # "number")
        /\ \A j \in ServerIds \ (DOMAIN cache \cup {k}) : getKey(fresh, j) = Undefined

\* C9 witness: the page was reloaded with a pending entry and a count saved,
\* and load() has read both.
C9_Witness ==
  /\ lastOp = "load"
  /\ \E k \in DOMAIN cache : cache[k] = Null
  /\ \E k \in DOMAIN cache : cache[k].tag = "number"

\* C10 as claimed: the init handler mutates nothing: the cache and the
\* mapping localStorage holds (an absent item reads as the empty mapping) are
\* the same after the handler as before it.
C10_InitMutatesNothing ==
  [][lastOp' \in {"init", "init again"} =>
       (cache' = cache /\ Persisted' = Persisted)]_vars

\* C10 amended: the init handler publishes the sum of the cached counts of its
\* file list; it adds no key and changes no value, deletes every key that is
\* no serverId of its file list and saves the mapping to localStorage; the
\* cache and the persisted mapping stay as they are exactly when every key is
\* a serverId of the list.
C10_InitPrunesAndSaves ==
  [][lastOp' \in {"init", "init again"} =>
       /\ pageCount' = SumCounts(LiveServerIds)
       /\ quantity' = ToString(IF pageCount' >= 1 THEN pageCount' ELSE 1)
       /\ DOMAIN cache' = DOMAIN cache \cap LiveServerIds
       /\ \A k \in DOMAIN cache' : cache'[k] = cache[k]
       /\ localStorage'.present
       /\ Persisted' = cache'
       /\ (cache' = cache /\ Persisted' = Persisted)
            <=> DOMAIN cache \subseteq LiveServerIds]_vars

\* C10 witness: an init event has deleted a key and kept another.
C10_Witness ==
  /\ lastOp \in {"init", "init again"}
  /\ pruned # {}
  /\ cache # EmptyMap

\* The page markers of a content made of pieces, and whether it holds the
\* container marker /Type /Pages.
MarkerChunks == Cardinality({i \in 1..Len(content) : content[i] = "marker"})

HasPagesChunk ==
  \E i \in 1..(Len(content) - 1) : content[i] = "marker" /\ content[i + 1] = "s"

\* C11 as claimed: for a content with k >= 1 page markers and no container
\* marker, wherever the markers sit, countPdfPages returns k.
C11_CountsEveryMarker ==
  (estimate # 0 /\ MarkerChunks >= 1 /\ ~HasPagesChunk) => estimate = MarkerChunks

\* Occurrences of pat in text.
Occurrences(text, pat) ==
  Cardinality({i \in 1..(Len(text) - Len(pat) + 1) : SubSeq(text, i, i + Len(pat) - 1) = pat})

\* The content holds /Type /Page only as the start of /Type /Pages, or not at all.
NoPageMarker(text) == Occurrences(text, Marker) = Occurrences(text, Marker \o <<"s">>)

\* The contents of at most MaxChunks pieces without a page marker all count 1.
UnmarkedContentsCountOne ==
  \A n \in 0..MaxChunks : \A chunks \in [1..n -> Chunks \ {"marker"}] :
     countPdfPages([type |-> PdfType, content |-> FileContent(chunks)]) = 1

\* C12: the page counter returns 1 for a content without page marker; every
\* entry of the cache is the pending marker or a count >= 1, and the entry a
\* completed analysis wrote for a live file is a count >= 1, which is 1 for a
\* PDF without page marker.
C12_CountsAtLeastOne ==
  /\ UnmarkedContentsCountOne
  /\ \A k \in DOMAIN cache :
        cache[k] = Null \/ (cache[k].tag = "number" /\ cache[k].num >= 1)
  /\ \A id \in completed \cap LiveIds :
        /\ getKey(State, id).tag = "number"
        /\ getKey(State, id).num >= 1
        /\ (FileOf(id).type = PdfType /\ NoPageMarker(FileOf(id).content))
             => getKey(State, id) = Num(1)

\* C12 witness: the analysis of s3, a PDF without page marker, has resolved
\* and written its count.
C12_Witness ==
  /\ lastOp = "complete"
  /\ "s3" \in completed \cap LiveIds
  /\ NoPageMarker(FileOf("s3").content)
  /\ getKey(State, "s3") = Num(1)

\* C13: from the processfile event of a file with a File object until its
\* analysis resolves, while the file is live, its key is in the cache and in
\* localStorage with the pending marker; a recompute in that time counts it 0.
C13_PendingWhileInFlight ==
  /\ \A id \in inflight \cap LiveIds :
        /\ hasKey(State, id)
        /\ getKey(State, id) = Null
        /\ id \in DOMAIN Persisted
        /\ Persisted[id] = Null
  /\ lastOp \in Recomputes => pageCount = SumCounts(LiveServerIds \ inflight)

\* C13 witness: a recompute has run while a live file was in flight, and
\* counted another file.
C13_Witness ==
  /\ lastOp \in Recomputes
  /\ inflight \cap LiveIds # {}
  /\ pageCount >= 1

\* C14: the processfile event of a restored file, which carries no File
\* object, changes neither the cache nor localStorage nor the quantity field,
\* starts no analysis and publishes nothing.
C14_NoFileNoAction ==
  [][(/\ lastOp' = "processfile"
      /\ \E i \in Indexes : pond[i].status = "restored" /\ pond'[i].status = "announced")
       => UNCHANGED <<cache, localStorage, quantity, seen, pageCount, published, inflight>>]_vars

\* C14 witness: the processfile event of a restored file whose entry is
\* pending has been handled, and the entry is pending still.
C14_Witness ==
  /\ lastOp = "processfile"
  /\ \E i \in Indexes :
        /\ pond[i].status = "announced"
        /\ pond[i].id \in pendingAtReload
        /\ getKey(State, pond[i].id) = Null

\* C15 as claimed: the entry of a file whose read does not resolve is pending
\* while the file is live and the page is not reloaded, is no longer pending
\* once the file is removed, and is no longer pending once the page is
\* reloaded.
C15_PendingUntilRemovedOrReloaded ==
  /\ \A id \in inflight \cap LiveIds : getKey(State, id) = Null
  /\ \A id \in removedInFlight : getKey(State, id) # Null
  /\ \A id \in pendingAtReload : getKey(State, id) # Null

\* C15 amended: the entry is pending while the file is live and the page is
\* not reloaded, and is gone once the file is removed; a reload does not end
\* it: load() reads the pending marker back, and the entry stays pending after
\* the reload for as long as the file is live.
C15_PendingUntilRemoved ==
  /\ \A id \in inflight \cap LiveIds : getKey(State, id) = Null
  /\ \A id \in removedInFlight : getKey(State, id) = Undefined
  /\ \A id \in pendingAtReload \cap LiveIds : getKey(State, id) = Null

\* C15 witness: after a reload, the processfile event of the restored file
\* and an init event, the entry that was pending at the reload is pending.
C15_Witness ==
  /\ lastOp \in {"init", "init again"}
  /\ \E i \in Indexes :
        /\ pond[i].status = "announced"
        /\ pond[i].id \in pendingAtReload
        /\ getKey(State, pond[i].id) = Null

\* C16: in every state the mapping a load of localStorage reads is the
\* mapping in memory, and the item exists once a handler has called setKey or
\* clearExcept.
C16_StoreMatchesMemory ==
  /\ Persisted = cache
  /\ cache # EmptyMap => localStorage.present
  /\ (lastOp \in Recomputes \/ inflight # {}) => localStorage.present

\* C16 witness: setKey has just written a pending marker next to a count.
C16_Witness ==
  /\ lastOp = "processfile"
  /\ \E k \in inflight : getKey(State, k) = Null
  /\ \E k \in DOMAIN cache : cache[k].tag = "number"
  /\ localStorage.present

\* C17: after load() the cache is the mapping the item parses to when the
\* item is a JSON object, and the empty mapping for every other item: absent,
\* unparsable, null, a number, a string, a boolean or a list.
C17_LoadNormalises ==
  payload.loaded =>
    LET parsed == JSONparse(getItemText(localStorage))
    IN IF parsed.ok /\ parsed.kind = "object"
       THEN cache = parsed.map
       ELSE cache = EmptyMap

\* The live files processed with their content whose read has failed: their
\* analysis is neither in flight nor completed.
Failed ==
  {pond[i].id : i \in {j \in Indexes : pond[j].status = "processed"}}
    \ (inflight \cup completed)

\* C18: a failed read changes neither the cache, localStorage, the file list,
\* the total nor the quantity field and publishes nothing; afterwards the
\* file's entry stays pending, and every recompute other events trigger
\* publishes the sum of the counts of the other live files.
C18_FailedReadChangesNothingElse ==
  /\ [][lastOp' = "readfail" =>
          UNCHANGED <<cache, localStorage, pond, pageCount, quantity, seen,
                      published>>]_vars
  /\ [](\A id \in Failed : getKey(State, id) = Null)
  /\ [](lastOp \in Recomputes =>
          published /\ pageCount = SumCounts(LiveServerIds \ Failed))

\* C18 witness: another file's analysis has completed and published a total
\* while a live file's read has failed.
C18_Witness ==
  /\ lastOp = "complete"
  /\ Failed # {}
  /\ pageCount >= 1
  /\ \A id \in Failed : getKey(State, id) = Null

\* C19: the step in which the analysis of a file G completes, with the
\* recompute and the pruning it triggers, leaves the entry of every other file
\* of the live list as it was, and every live file whose analysis has
\* completed holds the count of its own content.
C19_CompletionsDoNotInterfere ==
  /\ [][lastOp' \in {"complete", "stale"} =>
          \A F \in LiveIds \ (inflight \ inflight') :
            getKey(State, F)' = getKey(State, F)]_vars
  /\ [](\A G \in completed \cap LiveIds :
          getKey(State, G) = Num(analyzeFile(FileOf(G))))

\* C19 witness: G's analysis has just completed and stored G's count while
\* the analysis of a live file F is still in flight.
C19_Witness ==
  /\ lastOp = "complete"
  /\ \E F \in inflight \cap LiveIds, G \in completed \cap LiveIds :
       /\ F # G
       /\ getKey(State, F) = Null
       /\ getKey(State, G) = Num(analyzeFile(FileOf(G)))

\* A step of a widget event or of a page reload.
WidgetEvent ==
  lastOp' \in {"upload", "init", "init again", "processfile", "removefile", "load"}

\* No live file processed with its content is pending, the quantity field
\* shows max(1, sum of the counts of the live files), and the published total
\* is the sum over the cache as it is.
Synchronized ==
  /\ \A i \in Indexes :
       pond[i].status = "processed" => getKey(State, pond[i].id) # Null
  /\ inflight \cap LiveIds = {}
  /\ published
  /\ pageCount = SumCounts(LiveServerIds)
  /\ quantity = ToString(IF pageCount >= 1 THEN pageCount ELSE 1)
  /\ seen = quantity

\* C20: when every started read completes and from some point on no widget
\* event arrives, the page ends synchronized: from some point on no live file
\* processed with its content is pending and the quantity field equals
\* max(1, sum of the counts of the live files).
C20_EventuallySynchronized ==
  <>[][~WidgetEvent]_vars => <>[]Synchronized

\* C20 witness: two analyses were in flight and both have completed; the
\* field shows the sum of the two counts.
C20_Witness ==
  /\ Synchronized
  /\ lastOp = "complete"
  /\ Cardinality(completed \cap LiveIds) >= 2
  /\ pageCount >= 2

====
